---- MODULE Spec2Model ----
(***************************************************************************)
(* State-machine model of the HIT137 AI model GUI: the Tkinter front end   *)
(* (gui_application.py) with its background dispatch, the configuration    *)
(* helpers (utils.py) and the input validation and error mapping           *)
(* (base_model.py).                                                        *)
(*                                                                         *)
(* Strings the code inspects character by character (strip, startswith,    *)
(* urlparse) are sequences of one-character strings.                       *)
(***************************************************************************)
EXTENDS Integers, Sequences, FiniteSets, TLC

\* Number of Process invocations (worker threads) one behaviour may start.
MaxWorkers == 2

Workers == 1..MaxWorkers

VARIABLES
    \* ---- gui_application.py: AIModelGUI / GuiBase -------------------------
    mainloop,        \* TRUE once run() has entered root.mainloop()
    models,          \* keys of self.models (GuiBase._initialize_models)
    model_var,       \* self.model_var (combobox selection)
    _current_model,  \* self._current_model ("None" or a model name)
    input_text,      \* content of the input box
    browse_btn,      \* state of self.browse_btn
    _processing,     \* self._processing
    process_btn,     \* [text, state] of self.process_btn
    progress,        \* TRUE while self.progress is started
    output_text,     \* content of the output pane
    dialogs,         \* message boxes shown so far (show_message)
    afterQueue,      \* callbacks scheduled with root.after(0, ...), FIFO
    \* ---- one entry per invocation of _process_in_thread -------------------
    wpc,             \* position of the invocation in _process_in_thread
    thread,          \* the thread that executes the invocation
    args,            \* (input_text, model_name) of the invocation, until used
    outcome,         \* how model.process ended (the locals result / e)
    calls,           \* number of times the invocation called model.process
    scheduled,       \* callbacks the invocation scheduled, in order
    ran              \* callbacks of the invocation the UI thread has run

guiVars ==
    <<mainloop, models, model_var, _current_model, input_text, browse_btn,
      _processing, process_btn, progress, output_text, dialogs, afterQueue,
      wpc, thread, args, outcome, calls, scheduled, ran>>

(***************************************************************************)
(* String helpers (Python str methods used by the code).                   *)
(***************************************************************************)

\* Characters str.strip() removes (the whitespace the inputs can hold).
Whitespace == {" ", "\t", "\n"}

RECURSIVE lstrip(_)
lstrip(s) ==
    IF s = <<>> THEN <<>>
    ELSE IF Head(s) \in Whitespace THEN lstrip(Tail(s)) ELSE s

RECURSIVE rstrip(_)
rstrip(s) ==
    IF s = <<>> THEN <<>>
    ELSE IF s[Len(s)] \in Whitespace THEN rstrip(SubSeq(s, 1, Len(s) - 1))
    ELSE s

\* str.strip()
strip(s) == rstrip(lstrip(s))

\* str.startswith(prefix)
startswith(s, prefix) ==
    /\ Len(s) >= Len(prefix)
    /\ SubSeq(s, 1, Len(prefix)) = prefix

(***************************************************************************)
(* Literals of gui_application.py.                                         *)
(***************************************************************************)

ImageClassification == "Image Classification"
SentimentAnalysis == "Sentiment Analysis"
ModelNames == {ImageClassification, SentimentAnalysis}

Enter == <<"E","n","t","e","r">>

PlaceholderImage ==
    <<"E","n","t","e","r"," ","i","m","a","g","e"," ","U","R","L"," ","o","r",
      " ","f","i","l","e"," ","p","a","t","h"," ","f","o","r"," ","c","l","a",
      "s","s","i","f","i","c","a","t","i","o","n",".",".",".">>

PlaceholderSentiment ==
    <<"E","n","t","e","r"," ","t","e","x","t"," ","f","o","r"," ","s","e","n",
      "t","i","m","e","n","t"," ","a","n","a","l","y","s","i","s",".",".",".">>

\* Texts the user types into the input box: nothing but blanks, and a text
\* with surrounding blanks.
TypedInputs ==
    { <<" ", "\n">>,
      <<" ", "h", "i", " ">> }

(***************************************************************************)
(* The black box behind model.process: it returns a string or raises.      *)
(***************************************************************************)

\* Strings a model call can return.
ProcessResults == { <<"result">> }

\* str(e) of the exceptions a model call can raise.
ProcessErrors == { <<"model failed">> }

NoOutcome == [kind |-> "none", value |-> <<>>]

(***************************************************************************)
(* Initial state: AIModelGUI() has been constructed, run() not yet called. *)
(* _initialize_models stops at the first model whose construction raises,  *)
(* so self.models holds a prefix of the two models.                        *)
(***************************************************************************)
InitGui ==
    /\ mainloop = FALSE
    /\ models \in { {}, {ImageClassification}, ModelNames }
    /\ model_var = ImageClassification
    /\ _current_model = "None"
    /\ input_text = <<>>
    /\ browse_btn = "normal"
    /\ _processing = FALSE
    /\ process_btn = [text |-> "Process", state |-> "normal"]
    /\ progress = FALSE
    /\ output_text = <<>>
    /\ dialogs = {}
    /\ afterQueue = <<>>
    /\ wpc = [w \in Workers |-> "idle"]
    /\ thread = [w \in Workers |-> "none"]
    /\ args = [w \in Workers |-> [input_text |-> <<>>, model_name |-> "None"]]
    /\ outcome = [w \in Workers |-> NoOutcome]
    /\ calls = [w \in Workers |-> 0]
    /\ scheduled = [w \in Workers |-> <<>>]
    /\ ran = [w \in Workers |-> <<>>]

workerVars == <<wpc, thread, args, outcome, calls, scheduled, ran>>

\* The UI thread runs one handler at a time: it is free unless it is itself
\* inside an invocation of _process_in_thread.
UIFree ==
    /\ mainloop
    /\ \A w \in Workers : thread[w] = "ui" => wpc[w] \in {"idle", "done"}

\* Bound of the model: the user stops editing once MaxWorkers invocations
\* have been started (no later Process click could read the edit).
CanStillProcess == \E w \in Workers : wpc[w] = "idle"

\* GuiBase.show_message: a message box is shown (and dismissed by the user).
show_message(title, message, msg_type) ==
    dialogs' = dialogs \cup
        {[title |-> title, message |-> message, type |-> msg_type]}

\* Mutant of after: the newest callback is run first.
after_Lifo(queue, callback) == <<callback>> \o queue

\* root.after(0, callback, *args): the callback joins the event loop's queue
\* of timer handlers, which Tk runs in the order they were created.
after(queue, callback) == Append(queue, callback)

(***************************************************************************)
(* UI-thread handlers.                                                     *)
(***************************************************************************)

\* _update_ui_for_model, for self._current_model = m.
UpdateUiForModel(m) ==
    IF m = ImageClassification
    THEN /\ input_text' = PlaceholderImage
         /\ browse_btn' = "normal"
    ELSE /\ input_text' = PlaceholderSentiment
         /\ browse_btn' = "disabled"

\* _on_model_change, with the combobox holding m.
OnModelChange(m) ==
    IF m \in models
    THEN /\ _current_model' = m
         /\ UpdateUiForModel(m)
    ELSE UNCHANGED <<_current_model, input_text, browse_btn>>

\* run(): _on_model_change() for the default selection, then the main loop.
run ==
    /\ ~mainloop
    /\ mainloop' = TRUE
    /\ OnModelChange(model_var)
    /\ UNCHANGED <<models, model_var, _processing, process_btn, progress,
                   output_text, dialogs, afterQueue, workerVars>>

\* The user picks m in the combobox: <<ComboboxSelected>> -> _on_model_change.
_on_model_change ==
    /\ UIFree
    /\ CanStillProcess
    /\ \E m \in ModelNames :
        /\ model_var' = m
        /\ OnModelChange(m)
    /\ UNCHANGED <<mainloop, models, _processing, process_btn, progress,
                   output_text, dialogs, afterQueue, workerVars>>

\* The user edits the input box.
TypeInput ==
    /\ UIFree
    /\ CanStillProcess
    /\ \E t \in TypedInputs : input_text' = t
    /\ UNCHANGED <<mainloop, models, model_var, _current_model, browse_btn,
                   _processing, process_btn, progress, output_text, dialogs,
                   afterQueue, workerVars>>

\* _clear_input
_clear_input ==
    /\ UIFree
    /\ CanStillProcess
    /\ input_text' = <<>>
    /\ UNCHANGED <<mainloop, models, model_var, _current_model, browse_btn,
                   _processing, process_btn, progress, output_text, dialogs,
                   afterQueue, workerVars>>

\* Mutant of ThreadStart: self._process_in_thread(...) called directly, so
\* the invocation runs on the UI thread.
ThreadStart_Inline(w, text, model_name) ==
    /\ wpc' = [wpc EXCEPT ![w] = "L375"]
    /\ thread' = [thread EXCEPT ![w] = "ui"]
    /\ args' = [args EXCEPT ![w] =
                   [input_text |-> text, model_name |-> model_name]]

\* threading.Thread(target=self._process_in_thread, args=(...)).start():
\* invocation w will be executed by a new thread, starting at line 375.
ThreadStart(w, text, model_name) ==
    /\ wpc' = [wpc EXCEPT ![w] = "L375"]
    /\ thread' = [thread EXCEPT ![w] = "worker"]
    /\ args' = [args EXCEPT ![w] =
                   [input_text |-> text, model_name |-> model_name]]

\* The invocation a newly started thread gets: the first unused one.
FreshWorker == CHOOSE w \in Workers :
    /\ wpc[w] = "idle"
    /\ \A v \in Workers : wpc[v] = "idle" => w <= v

\* Mutant of RejectInput: only the empty input is refused, the placeholder
\* text is not recognised.
RejectInput_EmptyOnly == strip(input_text) = <<>>

\* The three ways _process_text returns without dispatching.
RejectBusy == _processing
RejectInput ==
    \/ strip(input_text) = <<>>
    \/ startswith(strip(input_text), Enter)
RejectModel == model_var \notin models

\* _process_text: the command of the Process button (a disabled button does
\* not invoke its command).
_process_text ==
    /\ UIFree
    /\ process_btn.state = "normal"
    /\ RejectBusy \/ RejectInput \/ RejectModel
          \/ \E w \in Workers : wpc[w] = "idle"
    /\ IF RejectBusy
       THEN UNCHANGED <<dialogs, workerVars>>
       ELSE IF RejectInput
       THEN /\ show_message("Input Error",
                            <<"Please enter some text to process.">>, "error")
            /\ UNCHANGED workerVars
       ELSE IF RejectModel
       THEN /\ show_message("Model Error",
                            <<"Please select a valid model.">>, "error")
            /\ UNCHANGED workerVars
       ELSE /\ ThreadStart(FreshWorker, strip(input_text), model_var)
            /\ UNCHANGED <<dialogs, outcome, calls, scheduled, ran>>
    /\ UNCHANGED <<mainloop, models, model_var, _current_model, input_text,
                   browse_btn, _processing, process_btn, progress,
                   output_text, afterQueue>>

(***************************************************************************)
(* _process_in_thread.  wpc[w] names the line the invocation executes      *)
(* next; statements that touch only the thread's locals are taken together *)
(* with the statement before them.                                         *)
(***************************************************************************)

Callback(cb, w, arg) == [cb |-> cb, w |-> w, arg |-> arg]

NoArgs == [input_text |-> <<>>, model_name |-> "None"]

uiVars ==
    <<mainloop, models, model_var, _current_model, input_text, browse_btn,
      process_btn, progress, output_text, dialogs>>

\* self.root.after(0, cb, arg) called by invocation w.
Schedule(w, cb, arg) ==
    /\ afterQueue' = after(afterQueue, Callback(cb, w, arg))
    /\ scheduled' = [scheduled EXCEPT ![w] = Append(@, cb)]

\* line 375: self._processing = True
W_L375(w) ==
    /\ wpc[w] = "L375"
    /\ _processing' = TRUE
    /\ wpc' = [wpc EXCEPT ![w] = "L376"]
    /\ UNCHANGED <<uiVars, afterQueue, thread, args, outcome, calls,
                   scheduled, ran>>

\* line 376: self.root.after(0, self._start_processing_ui); then lines
\* 379-380: model = self.models[model_name] and model.process(input_text) is
\* entered, the last use of the two arguments.
W_L376(w) ==
    /\ wpc[w] = "L376"
    /\ args[w].model_name \in models
    /\ Schedule(w, "start", <<>>)
    /\ calls' = [calls EXCEPT ![w] = @ + 1]
    /\ wpc' = [wpc EXCEPT ![w] = "in_call"]
    /\ args' = [args EXCEPT ![w] = NoArgs]
    /\ UNCHANGED <<uiVars, _processing, thread, outcome, ran>>

\* lines 380-381: model.process returned result r;
\* self.root.after(0, self._display_result, result)
OnReturn(w, r) ==
    /\ outcome' = [outcome EXCEPT ![w] = [kind |-> "returned", value |-> r]]
    /\ Schedule(w, "display", r)
    /\ wpc' = [wpc EXCEPT ![w] = "L386"]
    /\ UNCHANGED calls

\* line 383: error_msg = f"Error processing text: {str(e)}"
error_msg(e) == <<"Error processing text: ">> \o e

\* Mutant of OnRaise: the exception is swallowed, nothing is displayed.
OnRaise_Swallow(w, e) ==
    /\ outcome' = [outcome EXCEPT ![w] = [kind |-> "raised", value |-> e]]
    /\ wpc' = [wpc EXCEPT ![w] = "L386"]
    /\ UNCHANGED <<afterQueue, scheduled, calls>>

\* Mutant of OnRaise: the failed call is tried again.
OnRaise_Retry(w, e) ==
    /\ calls' = [calls EXCEPT ![w] = @ + 1]
    /\ UNCHANGED <<outcome, wpc, afterQueue, scheduled>>

\* lines 382-384: model.process raised e; except Exception as e:
\* self.root.after(0, self._display_result, error_msg)
OnRaise(w, e) ==
    /\ outcome' = [outcome EXCEPT ![w] = [kind |-> "raised", value |-> e]]
    /\ Schedule(w, "display", error_msg(e))
    /\ wpc' = [wpc EXCEPT ![w] = "L386"]
    /\ UNCHANGED calls

\* line 380: the model call ends, by returning or by raising.
W_L380(w) ==
    /\ wpc[w] = "in_call"
    /\ \/ \E r \in ProcessResults : OnReturn(w, r)
       \/ \E e \in ProcessErrors : OnRaise(w, e)
    /\ UNCHANGED <<uiVars, _processing, thread, args, ran>>

\* Mutant of W_L386: the flag is reset at the end of the try block, so it is
\* not reset when model.process raised.
W_L386_InTry(w) ==
    /\ wpc[w] = "L386"
    /\ _processing' = IF outcome[w].kind = "raised" THEN _processing ELSE FALSE
    /\ wpc' = [wpc EXCEPT ![w] = "L387"]
    /\ UNCHANGED <<uiVars, afterQueue, thread, args, outcome, calls,
                   scheduled, ran>>

\* line 386 (finally): self._processing = False
W_L386(w) ==
    /\ wpc[w] = "L386"
    /\ _processing' = FALSE
    /\ wpc' = [wpc EXCEPT ![w] = "L387"]
    /\ UNCHANGED <<uiVars, afterQueue, thread, args, outcome, calls,
                   scheduled, ran>>

\* Mutant of Finally387: the stop callback is scheduled at the end of the
\* try block, not in the finally clause.
Finally387_InTry(w) ==
    IF outcome[w].kind = "raised"
    THEN UNCHANGED <<afterQueue, scheduled>>
    ELSE Schedule(w, "stop", <<>>)

\* line 387 (finally): self.root.after(0, self._stop_processing_ui)
Finally387(w) == Schedule(w, "stop", <<>>)

\* line 387, after which the function returns and the thread ends.
W_L387(w) ==
    /\ wpc[w] = "L387"
    /\ Finally387(w)
    /\ wpc' = [wpc EXCEPT ![w] = "done"]
    /\ UNCHANGED <<uiVars, _processing, thread, args, outcome, calls, ran>>

_process_in_thread ==
    \E w \in Workers :
        \/ W_L375(w)
        \/ W_L376(w)
        \/ W_L380(w)
        \/ W_L386(w)
        \/ W_L387(w)

(***************************************************************************)
(* Callbacks the event loop takes from the head of the after queue.        *)
(***************************************************************************)

\* The event loop hands the oldest scheduled callback to the UI thread.
TakeCallback(cb) ==
    /\ UIFree
    /\ afterQueue # <<>>
    /\ Head(afterQueue).cb = cb
    /\ afterQueue' = Tail(afterQueue)
    /\ ran' = [ran EXCEPT ![Head(afterQueue).w] = Append(@, cb)]

\* _start_processing_ui
_start_processing_ui ==
    /\ TakeCallback("start")
    /\ process_btn' = [text |-> "Processing...", state |-> "disabled"]
    /\ progress' = TRUE
    /\ output_text' = <<"Processing your request...">>
    /\ UNCHANGED <<mainloop, models, model_var, _current_model, input_text,
                   browse_btn, _processing, dialogs, wpc, thread, args,
                   outcome, calls, scheduled>>

\* _stop_processing_ui
_stop_processing_ui ==
    /\ TakeCallback("stop")
    /\ process_btn' = [text |-> "Process Text", state |-> "normal"]
    /\ progress' = FALSE
    /\ UNCHANGED <<mainloop, models, model_var, _current_model, input_text,
                   browse_btn, _processing, output_text, dialogs, wpc,
                   thread, args, outcome, calls, scheduled>>

\* _display_result(result)
_display_result ==
    /\ TakeCallback("display")
    /\ output_text' = Head(afterQueue).arg
    /\ UNCHANGED <<mainloop, models, model_var, _current_model, input_text,
                   browse_btn, _processing, process_btn, progress, dialogs,
                   wpc, thread, args, outcome, calls, scheduled>>

\* A step taken by the UI thread (an event handler or a scheduled callback).
UIStep ==
    \/ run
    \/ _on_model_change
    \/ TypeInput
    \/ _clear_input
    \/ _process_text
    \/ _start_processing_ui
    \/ _display_result
    \/ _stop_processing_ui

(***************************************************************************)
(* utils.py: the configuration file.                                       *)
(*                                                                         *)
(* A Python value is [t, i, s]: an int (t = "int", value i), a str         *)
(* (t = "str", characters s) or None (t = "none").  The file is missing,   *)
(* not valid JSON ("garbage"), valid JSON that is no object ("nondict"),   *)
(* or a JSON object whose members map a key to the text of its value.      *)
(***************************************************************************)
VARIABLES
    config_file,     \* content of app_config.json (CONFIG_PATH)
    saved,           \* [written, cfg]: the file was last written by
                     \* save_config(cfg)
    loaded           \* [done, cfg]: the last load_config returned cfg

cfgVars == <<config_file, saved, loaded>>

PyInt(n) == [t |-> "int", i |-> n, s |-> <<>>]
PyStr(c) == [t |-> "str", i |-> 0, s |-> c]
PyNone == [t |-> "none", i |-> 0, s |-> <<>>]

DigitChars == <<"0", "1", "2", "3", "4", "5", "6", "7", "8", "9">>

\* The decimal text of a natural number.
RECURSIVE NatToText(_)
NatToText(n) ==
    IF n < 10 THEN <<DigitChars[n + 1]>>
    ELSE Append(NatToText(n \div 10), DigitChars[(n % 10) + 1])

\* The value of a decimal digit.
DigitValue(c) == CHOOSE d \in 0..9 : DigitChars[d + 1] = c

\* The natural number a text of decimal digits denotes.
RECURSIVE TextToNat(_)
TextToNat(txt) ==
    IF txt = <<>> THEN 0
    ELSE 10 * TextToNat(SubSeq(txt, 1, Len(txt) - 1))
            + DigitValue(txt[Len(txt)])

\* json.dump of one value: an int is written in decimal, a str between
\* double quotes, None as null.
json_dumps(v) ==
    CASE v.t = "int" ->
            IF v.i < 0 THEN <<"-">> \o NatToText(0 - v.i) ELSE NatToText(v.i)
      [] v.t = "str" -> <<"\"">> \o v.s \o <<"\"">>
      [] OTHER -> <<"n", "u", "l", "l">>

\* json.load of one value.
json_loads(txt) ==
    CASE txt = <<"n", "u", "l", "l">> -> PyNone
      [] Head(txt) = "\"" -> PyStr(SubSeq(txt, 2, Len(txt) - 1))
      [] Head(txt) = "-" -> PyInt(0 - TextToNat(Tail(txt)))
      [] OTHER -> PyInt(TextToNat(txt))

\* DEFAULT_CONFIG
DEFAULT_image_top_k == 5
DEFAULT_text_max_len == 256
DEFAULT_CONFIG ==
    [k \in {"image_top_k", "text_max_len"} |->
        IF k = "image_top_k" THEN PyInt(DEFAULT_image_top_k)
        ELSE PyInt(DEFAULT_text_max_len)]

ConfigKeys == DOMAIN DEFAULT_CONFIG

\* dict.get(k, default)
get(d, k, default) == IF k \in DOMAIN d THEN d[k] ELSE default

\* Mutant of LoadResult: cfg.update(data) without the filter on known keys.
LoadResult_KeepUnknown(f) ==
    IF f.kind = "object"
    THEN [k \in ConfigKeys \cup DOMAIN f.members |->
            IF k \in DOMAIN f.members THEN json_loads(f.members[k])
            ELSE DEFAULT_CONFIG[k]]
    ELSE DEFAULT_CONFIG

\* The dict that load_config returns for the content f of the file.
LoadResult(f) ==
    IF f.kind = "object"
    THEN [k \in ConfigKeys |->
            IF k \in DOMAIN f.members THEN json_loads(f.members[k])
            ELSE DEFAULT_CONFIG[k]]
    ELSE DEFAULT_CONFIG

\* Mutant of SaveResult: the sign of a number is not written.
SaveResult_NoSign(cfg) ==
    [kind |-> "object",
     members |-> [k \in ConfigKeys |->
        LET v == get(cfg, k, DEFAULT_CONFIG[k])
        IN  IF v.t = "int" /\ v.i < 0 THEN NatToText(0 - v.i)
            ELSE json_dumps(v)]]

\* The content save_config(cfg) writes.
SaveResult(cfg) ==
    [kind |-> "object",
     members |-> [k \in ConfigKeys |->
                     json_dumps(get(cfg, k, DEFAULT_CONFIG[k]))]]

\* Values a config dict or the file can hold for a key.
CfgValues ==
    { PyInt(0 - 1), PyInt(5), PyInt(11), PyInt(4096), PyStr(<<"7">>), PyNone }

\* The dicts whose keys are in keys and whose values are in CfgValues.
DictsOver(keys) == UNION {[ks -> CfgValues] : ks \in SUBSET keys}

\* Arguments of save_config: dicts over the known keys and one unknown key.
ConfigDicts ==
    { d \in DictsOver(ConfigKeys \cup {"theme"}) :
        "theme" \in DOMAIN d => d["theme"] = PyStr(<<"7">>) }

\* Contents the file can have when the program starts.
StartFiles ==
    { [kind |-> k, members |-> <<>>] : k \in {"missing", "unreadable", "garbage", "nondict"} }
    \cup { [kind |-> "object",
            members |-> [k \in DOMAIN d |-> json_dumps(d[k])]] :
            d \in ConfigDicts }

NotSaved == [written |-> FALSE, cfg |-> DEFAULT_CONFIG]
NotLoaded == [done |-> FALSE, cfg |-> DEFAULT_CONFIG]

InitCfg ==
    /\ config_file \in StartFiles
    /\ saved = NotSaved
    /\ loaded = NotLoaded

CfgIdle ==
    /\ config_file = [kind |-> "missing", members |-> <<>>]
    /\ saved = NotSaved
    /\ loaded = NotLoaded

\* load_config()
load_config ==
    /\ loaded' = [done |-> TRUE, cfg |-> LoadResult(config_file)]
    /\ UNCHANGED <<config_file, saved>>

\* save_config(cfg)
save_config ==
    \E cfg \in ConfigDicts :
        /\ config_file' = SaveResult(cfg)
        /\ saved' = [written |-> TRUE, cfg |-> cfg]
        /\ UNCHANGED loaded

(***************************************************************************)
(* utils.py is_url and base_model.py validate_image_input.                 *)
(***************************************************************************)
VARIABLES
    fs,              \* paths for which os.path.exists is true
    image_input,     \* the argument validate_image_input was called with
    validated        \* what the wrapper did with it

inVars == <<fs, image_input, validated>>

LowerLetters ==
    {"a", "b", "c", "d", "e", "f", "g", "h", "i", "j", "k", "l", "m", "n",
     "o", "p", "q", "r", "s", "t", "u", "v", "w", "x", "y", "z"}

UpperLetters == {"H", "T", "P", "S"}

\* str.lower(), for the capital letters the inputs hold.
LowerChar(c) ==
    CASE c = "H" -> "h"
      [] c = "T" -> "t"
      [] c = "P" -> "p"
      [] c = "S" -> "s"
      [] OTHER -> c

lower(s) == [i \in DOMAIN s |-> LowerChar(s[i])]

\* urllib.parse.scheme_chars
scheme_chars ==
    LowerLetters \cup UpperLetters \cup {"0", "1", "+", "-", "."}

\* str.replace(c, "") for every c in chars.
RECURSIVE Remove(_, _)
Remove(s, chars) ==
    IF s = <<>> THEN <<>>
    ELSE IF Head(s) \in chars THEN Remove(Tail(s), chars)
    ELSE <<Head(s)>> \o Remove(Tail(s), chars)

\* str.find(c): the 0-based index of the first c, -1 when there is none.
find(s, c) ==
    IF \E i \in DOMAIN s : s[i] = c
    THEN (CHOOSE i \in DOMAIN s :
             s[i] = c /\ \A j \in 1..(i - 1) : s[j] # c) - 1
    ELSE 0 - 1

\* The netloc urlsplit cuts from the text after "//": up to the first
\* "/", "?" or "#".
RECURSIVE Netloc(_)
Netloc(rest) ==
    IF rest = <<>> \/ Head(rest) \in {"/", "?", "#"} THEN <<>>
    ELSE <<Head(rest)>> \o Netloc(Tail(rest))

\* urlparse(url): [ok, scheme].  Tab, CR and LF are dropped; the text before
\* the first ":" is the scheme, lowercased, when it starts with a letter and
\* holds scheme characters only; a netloc with one bracket but not the other
\* raises ValueError (ok = FALSE).
urlparse(text) ==
    LET url == Remove(text, {"\t", "\r", "\n"})
        i == find(url, ":")
        hasScheme ==
            /\ i > 0
            /\ url[1] \in LowerLetters \cup UpperLetters
            /\ \A k \in 1..i : url[k] \in scheme_chars
        rest == IF hasScheme THEN SubSeq(url, i + 2, Len(url)) ELSE url
        netloc == IF Len(rest) >= 2 /\ SubSeq(rest, 1, 2) = <<"/", "/">>
                  THEN Netloc(SubSeq(rest, 3, Len(rest)))
                  ELSE <<>>
        opens == \E k \in DOMAIN netloc : netloc[k] = "["
        closes == \E k \in DOMAIN netloc : netloc[k] = "]"
    IN  [ok |-> opens = closes,
         scheme |-> IF hasScheme THEN lower(SubSeq(url, 1, i)) ELSE <<>>]

\* is_url(s)
is_url(s) ==
    LET p == urlparse(strip(s))
    IN  IF p.ok
        THEN p.scheme \in {<<"h","t","t","p">>, <<"h","t","t","p","s">>}
        ELSE FALSE

\* os.path.exists(s)
exists(s) == s \in fs

Called(branch, arg) == [kind |-> "called", branch |-> branch, arg |-> arg]
Raised(exception, arg) == [kind |-> "raised", branch |-> exception, arg |-> arg]

\* Mutant of ValidateImageInput: the string is tested and passed on as it was
\* given, without strip().
ValidateImageInput_Untrimmed(input) ==
    IF input.t = "bytes" THEN Called("bytes", input.s)
    ELSE LET s == input.s
         IN  IF s = <<>>
             THEN Raised("ModelInputError",
                    <<"Please provide an image URL or a local file path.">>)
             ELSE IF is_url(s) THEN Called("url", s)
             ELSE IF exists(s) THEN Called("file", s)
             ELSE Raised("FileNotFoundError", s)

\* Mutant of ValidateImageInput: the filesystem is asked before the scheme.
ValidateImageInput_FileFirst(input) ==
    IF input.t = "bytes" THEN Called("bytes", input.s)
    ELSE LET s == strip(input.s)
         IN  IF s = <<>>
             THEN Raised("ModelInputError",
                    <<"Please provide an image URL or a local file path.">>)
             ELSE IF exists(s) THEN Called("file", s)
             ELSE IF is_url(s) THEN Called("url", s)
             ELSE Raised("FileNotFoundError", s)

\* The wrapper of validate_image_input: the wrapped function is called (from
\* the bytes, the URL or the file branch) or an exception is raised.
ValidateImageInput(input) ==
    IF input.t = "bytes" THEN Called("bytes", input.s)
    ELSE LET s == strip(input.s)
         IN  IF s = <<>>
             THEN Raised("ModelInputError",
                    <<"Please provide an image URL or a local file path.">>)
             ELSE IF is_url(s) THEN Called("url", s)
             ELSE IF exists(s) THEN Called("file", s)
             ELSE Raised("FileNotFoundError", s)

In_HttpsUrl ==
    <<"h","t","t","p","s",":","/","/","x","/","y",".","j","p","g">>
In_HttpsUrlPadded ==
    <<" ","h","t","t","p","s",":","/","/","x","/","y",".","j","p","g","\n">>
In_UpperHttp == <<"H","T","T","P",":","/","/","x">>
In_HttpNoSlashes == <<"h","t","t","p",":","y">>
In_HttpTab == <<"h","t","\t","t","p",":","/","/","x">>
In_Ftp == <<"f","t","p",":","/","/","x","/","y",".","j","p","g">>
In_HelloWorld == <<"h","e","l","l","o"," ","w","o","r","l","d">>
In_Path == <<"/","t","m","p","/","c","a","t",".","p","n","g">>
In_PathPadded == <<" ","/","t","m","p","/","c","a","t",".","p","n","g"," ">>
In_Blank == <<" "," ">>
In_NoScheme == <<":","/","/","x">>
In_NoColon == <<"h","t","t","p","/","/","x">>
In_SpaceInScheme == <<"h","t"," ","t","p",":","/","/","x">>
In_BadBracket == <<"h","t","t","p",":","/","/","[","x">>

\* Strings given to the validator.
InputStrings ==
    { <<>>, In_Blank, In_HttpsUrl, In_HttpsUrlPadded, In_UpperHttp,
      In_HttpNoSlashes, In_HttpTab, In_Ftp, In_HelloWorld, In_Path,
      In_PathPadded, In_NoScheme, In_NoColon, In_SpaceInScheme,
      In_BadBracket }

\* Inputs of the validator: the strings above and a bytes object.
ImageInputs ==
    { [t |-> "str", s |-> x] : x \in InputStrings }
    \cup { [t |-> "bytes", s |-> <<"\n", " ">>] }

\* Names that can exist in the filesystem; a file can be named like a URL.
Paths == { In_Path, In_HttpsUrl, In_HelloWorld, In_BadBracket }

NotValidated == [kind |-> "none", branch |-> "none", arg |-> <<>>]
NoInput == [t |-> "none", s |-> <<>>]

InitIn ==
    /\ fs \in SUBSET Paths
    /\ image_input = NoInput
    /\ validated = NotValidated

InIdle ==
    /\ fs = {}
    /\ image_input = NoInput
    /\ validated = NotValidated

\* A method decorated with validate_image_input is called with input.
validate_image_input ==
    \E input \in ImageInputs :
        /\ image_input' = input
        /\ validated' = ValidateImageInput(input)
        /\ UNCHANGED fs

(***************************************************************************)
(* base_model.py friendly_error_message.                                   *)
(*                                                                         *)
(* An exception is [classes, msg, status]: the classes it is an instance   *)
(* of (among those the function tests), str(e), and the status code of     *)
(* e.response ("?" when there is no response).                             *)
(***************************************************************************)
VARIABLES
    requests_ok,     \* the import of requests succeeded (_REQ_EXC not empty)
    exc,             \* the exception friendly_error_message was given
    friendly         \* the string it returned

errVars == <<requests_ok, exc, friendly>>

\* _REQ_EXC when requests was imported.
_REQ_EXC ==
    {"MissingSchema", "InvalidURL", "ConnectionError", "Timeout", "HTTPError"}

ExcClasses ==
    {"ModelInputError", "FileNotFoundError", "UnidentifiedImageError"}
        \cup _REQ_EXC

MsgInvalidUrl ==
    <<"That doesn't look like a valid URL. Please provide a full http/https link.">>
MsgConnection ==
    <<"Couldn't reach the URL (connection error). Please check your network or the URL.">>
MsgTimeout == <<"The request timed out while fetching the URL.">>
MsgHttp(status) ==
    <<"HTTP error while fetching the URL (status ", status, ").">>
MsgNotImage == <<"The file/URL could not be opened as an image.">>
MsgNotFound(msg) == <<"Image file not found: ">> \o msg

IsInstance(e, classes) == e.classes \cap classes # {}

\* Mutant of FriendlyErrorMessage: the tests are made in another order (the
\* file test before the validation test, the timeout test before the
\* connection test).
FriendlyErrorMessage_Reordered(e, req) ==
    IF IsInstance(e, {"FileNotFoundError"}) THEN MsgNotFound(e.msg)
    ELSE IF IsInstance(e, {"ModelInputError"}) THEN e.msg
    ELSE IF IsInstance(e, {"UnidentifiedImageError"}) THEN MsgNotImage
    ELSE IF req /\ IsInstance(e, _REQ_EXC)
    THEN IF IsInstance(e, {"MissingSchema", "InvalidURL"}) THEN MsgInvalidUrl
         ELSE IF IsInstance(e, {"Timeout"}) THEN MsgTimeout
         ELSE IF IsInstance(e, {"ConnectionError"}) THEN MsgConnection
         ELSE MsgHttp(e.status)
    ELSE e.msg

\* friendly_error_message(e); req: _REQ_EXC is not empty.
FriendlyErrorMessage(e, req) ==
    IF IsInstance(e, {"ModelInputError"}) THEN e.msg
    ELSE IF IsInstance(e, {"FileNotFoundError"}) THEN MsgNotFound(e.msg)
    ELSE IF IsInstance(e, {"UnidentifiedImageError"}) THEN MsgNotImage
    ELSE IF req /\ IsInstance(e, _REQ_EXC)
    THEN IF IsInstance(e, {"MissingSchema", "InvalidURL"}) THEN MsgInvalidUrl
         ELSE IF IsInstance(e, {"ConnectionError"}) THEN MsgConnection
         ELSE IF IsInstance(e, {"Timeout"}) THEN MsgTimeout
         ELSE IF IsInstance(e, {"HTTPError"})
         THEN MsgHttp(e.status)
         ELSE e.msg
    ELSE e.msg

\* str(e) of the exceptions given to the function.
ExcMessages == { <<>>, <<"boom">> }

\* Status codes of e.response; "?" stands for an exception without response.
ExcStatuses == { "?", "404" }

\* Exceptions: any combination of the tested classes (a class can derive
\* from several of them, as ConnectTimeout does from ConnectionError and
\* Timeout), or none of them.  The requests classes exist only when the
\* import succeeded.
Exceptions(req) ==
    { [classes |-> c, msg |-> m, status |-> st] :
        c \in SUBSET (IF req THEN ExcClasses ELSE ExcClasses \ _REQ_EXC),
        m \in ExcMessages, st \in ExcStatuses }

NoException == [classes |-> {}, msg |-> <<>>, status |-> "none"]
NoFriendly == <<"(not called)">>

InitErr ==
    /\ requests_ok \in BOOLEAN
    /\ exc = NoException
    /\ friendly = NoFriendly

ErrIdle ==
    /\ requests_ok = TRUE
    /\ exc = NoException
    /\ friendly = NoFriendly

\* friendly_error_message(e) is called.
friendly_error_message ==
    \E e \in Exceptions(requests_ok) :
        /\ exc' = e
        /\ friendly' = FriendlyErrorMessage(e, requests_ok)
        /\ UNCHANGED requests_ok

(***************************************************************************)
(* utils.py clamp_int.                                                     *)
(***************************************************************************)
VARIABLES
    clamp_in,        \* [val, lo, hi]: the arguments of the last clamp_int call
    clamp_out,       \* [called, r]: its return value
    clamp_prev       \* [again, r]: the call was made on the result r of the
                     \* call before it, with the same lo and hi

clampVars == <<clamp_in, clamp_out, clamp_prev>>

\* A Python float, in tenths; inf is the float that has no integer value.
PyFloat(tenths) == [t |-> "float", i |-> tenths, s |-> <<>>]
PyInf == [t |-> "float", i |-> 0, s |-> <<"i", "n", "f">>]

\* int(text): the text is stripped, an optional sign is read, the rest must
\* be decimal digits; anything else raises ValueError (ok = FALSE).
IntOfText(text) ==
    LET u == strip(text)
        signed == u # <<>> /\ Head(u) \in {"-", "+"}
        body == IF signed THEN Tail(u) ELSE u
        digits == {DigitChars[d] : d \in DOMAIN DigitChars}
        ok == body # <<>> /\ \A k \in DOMAIN body : body[k] \in digits
    IN  [ok |-> ok,
         v |-> IF ~ok THEN 0
               ELSE IF signed /\ Head(u) = "-" THEN 0 - TextToNat(body)
               ELSE TextToNat(body)]

\* int(val): [ok, v]; ok = FALSE when the conversion raises.  A float is
\* truncated toward zero, inf raises OverflowError, None raises TypeError.
IntOf(val) ==
    CASE val.t = "int" -> [ok |-> TRUE, v |-> val.i]
      [] val.t = "float" ->
            IF val.s # <<>> THEN [ok |-> FALSE, v |-> 0]
            ELSE [ok |-> TRUE,
                  v |-> IF val.i >= 0 THEN val.i \div 10
                        ELSE 0 - ((0 - val.i) \div 10)]
      [] val.t = "str" -> IntOfText(val.s)
      [] OTHER -> [ok |-> FALSE, v |-> 0]

min(a, b) == IF a <= b THEN a ELSE b
max(a, b) == IF a >= b THEN a ELSE b

\* Mutant of ClampInt: the upper bound is not applied.
ClampInt_NoUpper(val, lo, hi) ==
    LET c == IntOf(val)
        v == IF c.ok THEN c.v ELSE lo
    IN  max(lo, v)

\* clamp_int(val, lo, hi)
ClampInt(val, lo, hi) ==
    LET c == IntOf(val)
        v == IF c.ok THEN c.v ELSE lo
    IN  max(lo, min(hi, v))

\* Largest magnitude of the small bounds lo and hi are drawn from.
MaxClamp == 2

\* The pairs lo <= hi clamp_int is called with: small ranges and the two
\* documented ranges of the config values.
ClampRanges ==
    { <<lo, hi>> \in ((0 - MaxClamp)..MaxClamp) \X ((0 - MaxClamp)..MaxClamp) :
        lo <= hi }
    \cup { <<1, 10>>, <<32, 2048>> }

\* The values clamp_int is called with.
ClampValues ==
    { PyInt(n) : n \in (0 - MaxClamp - 1)..(MaxClamp + 1) }
    \cup { PyInt(11), PyInt(31), PyInt(256), PyInt(4096) }
    \cup { PyFloat(x) : x \in {0 - 25, 0 - 5, 5, 15, 37, 105} }
    \cup { PyInf, PyNone, PyStr(<<"7">>), PyStr(<<" ", "-", "1">>),
           PyStr(<<"a">>), PyStr(<<"1", ".", "5">>), PyStr(<<>>) }

NotClamped == [called |-> FALSE, r |-> 0]
NotAgain == [again |-> FALSE, r |-> 0]

InitClamp ==
    /\ clamp_in = [val |-> PyNone, lo |-> 0, hi |-> 0]
    /\ clamp_out = NotClamped
    /\ clamp_prev = NotAgain

ClampIdle == InitClamp

\* clamp_int(val, lo, hi) is called.
clamp_int ==
    \E val \in ClampValues, p \in ClampRanges :
        /\ clamp_in' = [val |-> val, lo |-> p[1], hi |-> p[2]]
        /\ clamp_out' = [called |-> TRUE, r |-> ClampInt(val, p[1], p[2])]
        /\ clamp_prev' = NotAgain

\* clamp_int(r, lo, hi) is called on the result r of the call before.
clamp_int_again ==
    /\ clamp_out.called
    /\ ~clamp_prev.again
    /\ clamp_in' = [clamp_in EXCEPT !.val = PyInt(clamp_out.r)]
    /\ clamp_out' = [called |-> TRUE,
                     r |-> ClampInt(PyInt(clamp_out.r), clamp_in.lo, clamp_in.hi)]
    /\ clamp_prev' = [again |-> TRUE, r |-> clamp_out.r]

(***************************************************************************)
(* image_classification_model.py and sentiment_analysis_model.py: one      *)
(* model object, its load_model and its process.                           *)
(***************************************************************************)
VARIABLES
    model_class,     \* the class of the object
    _model_name,     \* self._model_name
    _is_loaded,      \* self._is_loaded
    _pipeline,       \* self._pipeline: "None", or how the pipeline was made
    last_call        \* the last call made on the object and how it ended

mdlVars == <<model_class, _model_name, _is_loaded, _pipeline, last_call>>

ModelClasses == {"ImageClassificationModel", "SentimentAnalysisModel"}

\* The name given to BaseModel.__init__ by the constructor.
PrimaryName(class) ==
    IF class = "ImageClassificationModel"
    THEN "google/vit-base-patch16-224"
    ELSE "cardiffnlp/twitter-roberta-base-sentiment-latest"

\* The name load_model records after the fallback.
FallbackName(class) ==
    IF class = "ImageClassificationModel"
    THEN "google/vit-base-patch16-224"
    ELSE "distilbert-base-uncased-finetuned-sst-2-english"

\* BaseModel.__init__(model_name): the name is kept and the object is not
\* loaded.
BaseModel__init__(name) ==
    /\ _model_name = name
    /\ _is_loaded = FALSE

\* What the two calls of transformers.pipeline would do: succeed or raise.
HubOutcomes == [named : BOOLEAN, default : BOOLEAN]

\* Mutant of LoadModel: no second attempt, the first failure is raised.
LoadModel_NoFallback(hub) ==
    IF hub.named
    THEN [raised |-> FALSE, attempts |-> <<"named">>,
          pipeline |-> "named", loaded |-> TRUE, name |-> _model_name]
    ELSE [raised |-> TRUE, attempts |-> <<"named">>,
          pipeline |-> _pipeline, loaded |-> _is_loaded,
          name |-> _model_name]

\* load_model(): [raised, attempts, pipeline, loaded, name], the pipeline
\* calls it made and the fields of the object when it returns or raises.
LoadModel(hub) ==
    IF hub.named
    THEN [raised |-> FALSE, attempts |-> <<"named">>,
          pipeline |-> "named", loaded |-> TRUE, name |-> _model_name]
    ELSE IF hub.default
    THEN [raised |-> FALSE, attempts |-> <<"named", "default">>,
          pipeline |-> "default", loaded |-> TRUE,
          name |-> FallbackName(model_class)]
    ELSE [raised |-> TRUE, attempts |-> <<"named", "default">>,
          pipeline |-> _pipeline, loaded |-> _is_loaded,
          name |-> _model_name]

\* load_model was not called.
NotLoadedNow ==
    [raised |-> FALSE, attempts |-> <<>>, pipeline |-> _pipeline,
     loaded |-> _is_loaded, name |-> _model_name]

NoHub == [named |-> FALSE, default |-> FALSE]

\* A returned string: its fixed text, the text inserted into it, and the
\* predictions it lists.
Ret(text, detail, listed) ==
    [text |-> text, detail |-> detail, listed |-> listed]

NoRet == Ret("", <<>>, <<>>)

\* str(e) of an exception raised while the input is processed.
StrE == <<"boom">>

\* Largest number of predictions the pipeline returns.
MaxResults == 6

\* What the pipeline call does: it raises, or returns n predictions, here
\* numbered by rank.
InferOutcomes ==
    { [raises |-> TRUE, n |-> 0] }
    \cup { [raises |-> FALSE, n |-> k] : k \in 0..MaxResults }

Predictions(n) == [i \in 1..n |-> i]

\* Mutant of Top5: every prediction is listed.
Top5_All(results) == results

\* results[:5]
Top5(results) == SubSeq(results, 1, min(5, Len(results)))

\* What self.validate_output(text) of ModelMixin does.
ValidateOutputOutcomes == {"True", "False", "raise"}

\* input_data.startswith(('http://', 'https://'))
StartsWithHttp(input) ==
    \/ startswith(input, <<"h", "t", "t", "p", ":", "/", "/">>)
    \/ startswith(input, <<"h", "t", "t", "p", "s", ":", "/", "/">>)

\* The try statement of ImageClassificationModel.process: the string it
\* returns.  acquired: the image was fetched or opened; infer: what the
\* RGB conversion and the pipeline call do; valid: what validate_output does.
ImageBody(input, acquired, infer, valid) ==
    IF ~acquired
    THEN IF StartsWithHttp(input)
         THEN Ret("Error loading image from URL: ", StrE, <<>>)
         ELSE Ret("DEMO MODE - Image Classification", input, <<>>)
    ELSE IF infer.raises
    THEN Ret("Error processing image: ", StrE, <<>>)
    ELSE IF infer.n = 0
    THEN Ret("Error: No classification results obtained", <<>>, <<>>)
    ELSE IF valid = "raise"
    THEN Ret("Error processing image: ", StrE, <<>>)
    ELSE IF valid = "True"
    THEN Ret("Image Classification Results:", <<>>,
             Top5(Predictions(infer.n)))
    ELSE Ret("Error: Invalid classification result", <<>>, <<>>)

\* The try statement of SentimentAnalysisModel.process.
SentimentBody(input, infer, valid) ==
    IF infer.raises
    THEN Ret("Error processing sentiment: ", StrE, <<>>)
    ELSE IF infer.n = 0
    THEN Ret("Error: No sentiment analysis result", <<>>, <<>>)
    ELSE IF valid = "raise"
    THEN Ret("Error processing sentiment: ", StrE, <<>>)
    ELSE IF valid = "True"
    THEN Ret("Sentiment: ", <<>>, <<Predictions(infer.n)[1]>>)
    ELSE Ret("Error: Invalid sentiment analysis result", <<>>, <<>>)

\* Strings given to process.
ProcessInputs == { In_HttpsUrl, In_HttpNoSlashes, In_Path }

\* A call and how it ended.  env holds what the environment did where the
\* call got that far ("-" where it did not).
Call(op, input, load, hub, env, raised, ret) ==
    [op |-> op, input |-> input, was_loaded |-> _is_loaded,
     attempts |-> load.attempts, hub |-> hub, env |-> env,
     raised |-> raised, ret |-> ret]

\* No pipeline call was made.
NoInfer == [raises |-> FALSE, n |-> 0 - 1]

NoEnv ==
    [accepted |-> "-", acquired |-> "-", infer |-> NoInfer, valid |-> "-"]

NoCall ==
    [op |-> "none", input |-> <<>>, was_loaded |-> FALSE, attempts |-> <<>>,
     hub |-> NoHub, env |-> NoEnv, raised |-> FALSE, ret |-> NoRet]

\* The constructor: super().__init__(name); self._pipeline = None
InitMdl ==
    /\ model_class \in ModelClasses
    /\ BaseModel__init__(PrimaryName(model_class))
    /\ _pipeline = "None"
    /\ last_call = NoCall

MdlIdle ==
    /\ model_class = "ImageClassificationModel"
    /\ BaseModel__init__(PrimaryName(model_class))
    /\ _pipeline = "None"
    /\ last_call = NoCall

\* The fields of the object after load_model (ld) was or was not run.
SetFields(ld) ==
    /\ _pipeline' = ld.pipeline
    /\ _is_loaded' = ld.loaded
    /\ _model_name' = ld.name
    /\ UNCHANGED model_class

\* load_model() is called on the object.
load_model ==
    \E hub \in HubOutcomes :
        LET ld == LoadModel(hub)
        IN  /\ SetFields(ld)
            /\ last_call' =
                  Call("load_model", <<>>, ld, hub, NoEnv, ld.raised, NoRet)

\* Mutant of NeedsLoad: process loads the model on every call.
NeedsLoad_Always == TRUE

\* if not self._is_loaded
NeedsLoad == ~_is_loaded

\* What the environment does during the try statement of process, drawn only
\* as far as the call gets.
BodyEnvs ==
    { [accepted |-> "yes", acquired |-> a, infer |-> i, valid |-> v] :
        a \in (IF model_class = "ImageClassificationModel"
               THEN {"yes", "no"} ELSE {"-"}),
        i \in InferOutcomes \cup {NoInfer},
        v \in ValidateOutputOutcomes \cup {"-"} }

Canonical(env) ==
    /\ (env.acquired = "no") = (env.infer = NoInfer)
    /\ (env.valid = "-") = (env.infer = NoInfer \/ env.infer.raises
                               \/ env.infer.n = 0)

\* The string the try statement of process returns.
Body(input, env) ==
    IF model_class = "ImageClassificationModel"
    THEN ImageBody(input, env.acquired = "yes", env.infer, env.valid)
    ELSE SentimentBody(input, env.infer, env.valid)

\* process(input) is called on the object.  The validate_input decorator
\* either refuses the input (the method is not entered) or lets it pass.
process ==
    \E input \in ProcessInputs :
        \/ /\ SetFields(NotLoadedNow)
           /\ last_call' =
                 Call("process", input, NotLoadedNow, NoHub,
                      [NoEnv EXCEPT !.accepted = "no"], TRUE, NoRet)
        \/ \E hub \in (IF NeedsLoad THEN HubOutcomes ELSE {NoHub}) :
              LET ld == IF NeedsLoad THEN LoadModel(hub) ELSE NotLoadedNow
              IN  /\ SetFields(ld)
                  /\ IF ld.raised
                     THEN last_call' =
                             Call("process", input, ld, hub,
                                  [NoEnv EXCEPT !.accepted = "yes"],
                                  TRUE, NoRet)
                     ELSE \E env \in BodyEnvs :
                             /\ Canonical(env)
                             /\ last_call' =
                                   Call("process", input, ld, hub, env,
                                        FALSE, Body(input, env))

vars == <<guiVars, cfgVars, inVars, errVars, clampVars, mdlVars>>

\* The GUI as constructed with both models, at rest.
GuiIdle == InitGui /\ models = ModelNames

Init == InitGui /\ CfgIdle /\ InIdle /\ ErrIdle /\ ClampIdle /\ MdlIdle

Next ==
    \/ run /\ UNCHANGED <<cfgVars, inVars, errVars, clampVars, mdlVars>>
    \/ _on_model_change /\ UNCHANGED <<cfgVars, inVars, errVars, clampVars, mdlVars>>
    \/ TypeInput /\ UNCHANGED <<cfgVars, inVars, errVars, clampVars, mdlVars>>
    \/ _clear_input /\ UNCHANGED <<cfgVars, inVars, errVars, clampVars, mdlVars>>
    \/ _process_text /\ UNCHANGED <<cfgVars, inVars, errVars, clampVars, mdlVars>>
    \/ _start_processing_ui /\ UNCHANGED <<cfgVars, inVars, errVars, clampVars, mdlVars>>
    \/ _display_result /\ UNCHANGED <<cfgVars, inVars, errVars, clampVars, mdlVars>>
    \/ _stop_processing_ui /\ UNCHANGED <<cfgVars, inVars, errVars, clampVars, mdlVars>>
    \/ _process_in_thread /\ UNCHANGED <<cfgVars, inVars, errVars, clampVars, mdlVars>>

\* The GUI: user events, worker threads and scheduled callbacks interleaved.
Spec == Init /\ [][Next]_vars

StartCfg == GuiIdle /\ InitCfg /\ InIdle /\ ErrIdle /\ ClampIdle /\ MdlIdle

NextCfg ==
    \/ load_config /\ UNCHANGED <<guiVars, inVars, errVars, clampVars, mdlVars>>
    \/ save_config /\ UNCHANGED <<guiVars, inVars, errVars, clampVars, mdlVars>>

\* The configuration helpers called in any order on any starting file.
SpecCfg == StartCfg /\ [][NextCfg]_vars

StartIn == GuiIdle /\ CfgIdle /\ InitIn /\ ErrIdle /\ ClampIdle /\ MdlIdle

NextIn == validate_image_input /\ UNCHANGED <<guiVars, cfgVars, errVars, clampVars, mdlVars>>

\* The input validator applied to any input under any filesystem.
SpecIn == StartIn /\ [][NextIn]_vars

StartErr == GuiIdle /\ CfgIdle /\ InIdle /\ InitErr /\ ClampIdle /\ MdlIdle

NextErr == friendly_error_message /\ UNCHANGED <<guiVars, cfgVars, inVars, clampVars, mdlVars>>

\* The error mapping applied to any exception.
SpecErr == StartErr /\ [][NextErr]_vars

StartClamp == GuiIdle /\ CfgIdle /\ InIdle /\ ErrIdle /\ InitClamp /\ MdlIdle

NextClamp ==
    \/ clamp_int /\ UNCHANGED <<guiVars, cfgVars, inVars, errVars, mdlVars>>
    \/ clamp_int_again /\ UNCHANGED <<guiVars, cfgVars, inVars, errVars, mdlVars>>

\* clamp_int applied to any value and range, and again to its own result.
SpecClamp == StartClamp /\ [][NextClamp]_vars

StartMdl == GuiIdle /\ CfgIdle /\ InIdle /\ ErrIdle /\ ClampIdle /\ InitMdl

NextMdl ==
    \/ load_model /\ UNCHANGED <<guiVars, cfgVars, inVars, errVars, clampVars>>
    \/ process /\ UNCHANGED <<guiVars, cfgVars, inVars, errVars, clampVars>>

\* One model object: load_model and process called in any order, the hub,
\* the network and the pipeline behaving in any way.
SpecMdl == StartMdl /\ [][NextMdl]_vars

(***************************************************************************)
(* Properties of the background dispatch.                                  *)
(***************************************************************************)

\* Number of occurrences of x in the sequence q.
CountOf(x, q) == Cardinality({i \in DOMAIN q : q[i] = x})

IsPrefix(p, q) == Len(p) <= Len(q) /\ SubSeq(q, 1, Len(p)) = p

\* The callbacks of one invocation, in the order the code schedules them.
StartDisplayStop == <<"start", "display", "stop">>

\* The invocation has left the try statement (its finally clause included).
Finished(w) == wpc[w] = "done"

\* C1: every run of _process_in_thread schedules _stop_processing_ui exactly
\* once, whether model.process returned or raised: never more than once, not
\* before the invocation reaches its finally clause, and once it has ended.
C1_StopScheduledOnce ==
    \A w \in Workers :
        /\ CountOf("stop", scheduled[w]) <= 1
        /\ wpc[w] # "done" => CountOf("stop", scheduled[w]) = 0
        /\ Finished(w) =>
              /\ outcome[w].kind \in {"returned", "raised"}
              /\ CountOf("stop", scheduled[w]) = 1

\* One invocation has ended after a returned result and one after a raised
\* exception, each with its stop callback scheduled.
C1_Witness ==
    \E v, w \in Workers :
        /\ Finished(v) /\ outcome[v].kind = "returned"
        /\ Finished(w) /\ outcome[w].kind = "raised"
        /\ CountOf("stop", scheduled[v]) = 1
        /\ CountOf("stop", scheduled[w]) = 1

\* C2: _process_text hands the invocation to a worker thread and returns:
\* every statement of _process_in_thread, the model call included, runs on
\* the worker, and while the call is in progress the UI thread is free: it
\* can run a scheduled callback and it can handle a Process click.
C2_ModelCallOffUiThread ==
    \A w \in Workers :
        /\ wpc[w] # "idle" => thread[w] = "worker"
        /\ wpc[w] = "in_call" =>
              /\ UIFree
              /\ afterQueue # <<>> =>
                    ENABLED (_start_processing_ui \/ _display_result
                                \/ _stop_processing_ui)
              /\ (process_btn.state = "normal" /\ (_processing \/ CanStillProcess))
                    => ENABLED _process_text

\* A model call is in progress and, meanwhile, the UI thread has run the
\* invocation's start callback and rejected a second Process click.
C2_Witness ==
    \E w \in Workers :
        /\ wpc[w] = "in_call"
        /\ ran[w] = <<"start">>
        /\ process_btn.state = "disabled"
        /\ output_text = <<"Processing your request...">>

Rejected == RejectBusy \/ RejectInput \/ RejectModel

\* Invocations started by the step.
StartedNow == {w \in Workers : wpc[w] = "idle" /\ wpc'[w] # "idle"}

\* C4: a step starts at most one worker, and only an accepted Process click
\* starts one; a rejected click changes nothing but the message shown (no
\* worker, no scheduled callback, nothing left to run later); a worker calls
\* model.process once, and exactly once by the time the call has ended,
\* whether it returned or raised.
C4_OneWorkerOneCall ==
    [][ /\ Cardinality(StartedNow) <= 1
        /\ StartedNow # {} => (_process_text /\ ~Rejected)
        /\ (_process_text /\ Rejected) =>
              UNCHANGED <<workerVars, afterQueue, _processing, process_btn,
                          progress, output_text, input_text, model_var>>
        /\ \A w \in Workers :
              /\ calls'[w] <= 1
              /\ wpc'[w] \in {"in_call", "L386", "L387", "done"}
                    => calls'[w] = 1 ]_vars

\* A failed invocation has ended after calling the model once, and a click
\* was rejected for its input.
C4_Witness ==
    \E w \in Workers :
        /\ Finished(w)
        /\ outcome[w].kind = "raised"
        /\ calls[w] = 1
        /\ \E d \in dialogs : d.title = "Input Error"

\* C5: state shared between the threads changes only in steps of the UI
\* thread; in particular the worker writes no variable the UI thread reads
\* (self._processing is read by _process_text).
C5_SharedStateWrittenByUiOnly ==
    [][ _processing' # _processing => UIStep ]_vars

\* The text _display_result shows for invocation w.
Presented(w) ==
    IF outcome[w].kind = "raised"
    THEN error_msg(outcome[w].value)
    ELSE outcome[w].value

\* C9 as stated: once the callbacks of a failed invocation have run, its
\* error string has been shown in a dialog.
C9_ErrorShownInDialog ==
    \A w \in Workers :
        (outcome[w].kind = "raised" /\ ran[w] = StartDisplayStop)
            => \E d \in dialogs : d.message = Presented(w)

\* C9 as amended: a failed call is caught in _process_in_thread and mapped to
\* "Error processing text: " + str(e), which is written to the output pane
\* by _display_result, not shown in a dialog; each invocation schedules one
\* display, of its result or of its error string, never both, never neither.
C9_ErrorShownInOutputPane ==
    [][ \A w \in Workers :
          /\ CountOf("display", scheduled'[w]) <= 1
          /\ wpc'[w] \in {"L386", "L387", "done"} =>
                /\ CountOf("display", scheduled'[w]) = 1
                /\ outcome'[w].kind = "raised" =>
                      outcome'[w].value \in ProcessErrors
          /\ (ran'[w] # ran[w] /\ Len(ran'[w]) = 2) =>
                /\ output_text' = Presented(w)
                /\ dialogs' = dialogs ]_vars

\* The error string of a failed invocation is in the output pane.
C9_Witness ==
    \E w \in Workers :
        /\ outcome[w].kind = "raised"
        /\ ran[w] = <<"start", "display">>
        /\ output_text = error_msg(outcome[w].value)

\* The input box is empty or holds white space only.
BoxBlank == \A i \in DOMAIN input_text : input_text[i] \in Whitespace

\* The input box holds text that starts with "Enter" (the placeholders do).
BoxPlaceholder ==
    \E i \in DOMAIN input_text :
        /\ \A j \in 1..(i - 1) : input_text[j] \in Whitespace
        /\ Len(input_text) >= i + 4
        /\ SubSeq(input_text, i, i + 4) = <<"E", "n", "t", "e", "r">>

InputErrorShown == \E d \in dialogs : d.title = "Input Error"

\* The click is handled as an input error: the message is shown, no worker
\* is started, and the flag, the button and the output pane are left alone.
RefusedForInput ==
    /\ _process_text
    /\ InputErrorShown'
    /\ StartedNow = {}
    /\ UNCHANGED <<_processing, process_btn, output_text>>

\* The click is dispatched: a worker is started.
Dispatched == _process_text /\ StartedNow # {}

\* The click is dropped: no message, no worker, nothing changed.
Dropped ==
    /\ _process_text
    /\ StartedNow = {}
    /\ UNCHANGED <<dialogs, _processing, process_btn, output_text>>

\* The UI thread can handle a click on Process now.
CanClick == UIFree /\ process_btn.state = "normal"

\* C12 as stated: a Process click on an empty, blank or placeholder input
\* shows the input error, starts no worker and leaves the flag, the button
\* and the output pane alone; a click on any other input with a known model
\* starts a worker.
C12_InvalidInputRejected ==
    CanClick =>
        IF BoxBlank \/ BoxPlaceholder
        THEN ENABLED RefusedForInput
        ELSE (model_var \in models /\ CanStillProcess) => ENABLED Dispatched

\* C12 as amended: the above holds of a click made while the _processing
\* flag is false; a click made while the flag is true returns at once, on
\* any input: no message, no worker, nothing changed.
C12_InvalidInputRejectedUnlessBusy ==
    CanClick =>
        IF _processing
        THEN ENABLED Dropped /\ ~ENABLED Dispatched
        ELSE IF BoxBlank \/ BoxPlaceholder
        THEN ENABLED RefusedForInput /\ ~ENABLED Dispatched
        ELSE (model_var \in models /\ CanStillProcess) => ENABLED Dispatched

\* The placeholder text was refused with the input error and nothing was
\* dispatched.
C12_Witness ==
    /\ input_text = PlaceholderImage
    /\ InputErrorShown
    /\ \A w \in Workers : wpc[w] = "idle"
    /\ ~_processing
    /\ process_btn.state = "normal"

\* Invocations whose model call is in progress.
InCall == {w \in Workers : wpc[w] = "in_call"}

\* C13: at most one worker is inside model.process at any time.
C13_NoConcurrentWorkers == Cardinality(InCall) <= 1

\* Every started invocation has ended and the UI thread has run every
\* scheduled callback.
Quiescent ==
    /\ \A w \in Workers : wpc[w] \in {"idle", "done"}
    /\ afterQueue = <<>>

\* C14: once every started worker has ended and every scheduled callback
\* has run, the _processing flag is false and the Process button is enabled.
C14_ControlsNotStuck ==
    Quiescent => (~_processing /\ process_btn.state = "normal")

\* Two invocations have ended, one of them after a failed call, all their
\* callbacks have run, and the button is enabled again.
C14_Witness ==
    /\ Quiescent
    /\ \E v, w \in Workers :
          /\ v # w
          /\ ran[v] = StartDisplayStop /\ ran[w] = StartDisplayStop
          /\ outcome[w].kind = "raised"
    /\ process_btn = [text |-> "Process Text", state |-> "normal"]
    /\ ~_processing

(***************************************************************************)
(* Properties of the configuration helpers.                                *)
(***************************************************************************)

\* C7: load_config() after save_config(cfg) returns a dict equal to cfg on
\* image_top_k and text_max_len, for every cfg holding both keys.
C7_RoundTrip ==
    [][ (load_config /\ saved.written /\ ConfigKeys \subseteq DOMAIN saved.cfg)
          => \A k \in ConfigKeys : loaded'.cfg[k] = saved.cfg[k] ]_vars

\* A negative number and a string were saved and loaded back.
C7_Witness ==
    /\ saved.written
    /\ loaded.done
    /\ ConfigKeys \subseteq DOMAIN saved.cfg
    /\ saved.cfg["image_top_k"] = PyInt(0 - 1)
    /\ saved.cfg["text_max_len"] = PyStr(<<"7">>)
    /\ loaded.cfg["image_top_k"] = PyInt(0 - 1)
    /\ loaded.cfg["text_max_len"] = PyStr(<<"7">>)

\* The documented bounds (utils.py, DEFAULT_CONFIG).
InBounds(v, lo, hi) == v.t = "int" /\ lo <= v.i /\ v.i <= hi

\* C8: whatever was saved or was in the file, the config load_config returns
\* has image_top_k in 1..10 and text_max_len in 32..2048.
C8_LoadedWithinBounds ==
    loaded.done =>
        /\ InBounds(loaded.cfg["image_top_k"], 1, 10)
        /\ InBounds(loaded.cfg["text_max_len"], 32, 2048)

\* The two keys of a config, and their defaults as Python values.
TwoKeys == {"image_top_k", "text_max_len"}
Defaults == [image_top_k |-> PyInt(5), text_max_len |-> PyInt(256)]

\* The defaults as json.dump writes them.
DefaultTexts == [image_top_k |-> <<"5">>, text_max_len |-> <<"2", "5", "6">>]

\* C16 (a step that changes loaded is a call of load_config, one that changes
\* saved or the file is a call of save_config): load_config returns a dict with exactly the two keys: the defaults
\* when the file is missing, unreadable, not JSON or not a JSON object, and
\* otherwise the default for each key the file lacks, with unknown keys
\* dropped; save_config writes an object with exactly the two keys, a key
\* its argument lacks being written with the default.
C16_KeysClosed ==
    [][ /\ loaded' # loaded =>
              /\ loaded'.done
              /\ DOMAIN loaded'.cfg = TwoKeys
              /\ config_file.kind # "object" =>
                    \A k \in TwoKeys : loaded'.cfg[k] = Defaults[k]
              /\ config_file.kind = "object" =>
                    \A k \in TwoKeys \ DOMAIN config_file.members :
                        loaded'.cfg[k] = Defaults[k]
        /\ (saved' # saved \/ config_file' # config_file) =>
              /\ saved'.written
              /\ config_file'.kind = "object"
              /\ DOMAIN config_file'.members = TwoKeys
              /\ \A k \in TwoKeys \ DOMAIN saved'.cfg :
                    config_file'.members[k] = DefaultTexts[k] ]_vars

\* A file holding image_top_k and an unknown key was loaded: the unknown key
\* is gone and text_max_len has its default.
C16_Witness ==
    /\ config_file.kind = "object"
    /\ DOMAIN config_file.members = {"image_top_k", "theme"}
    /\ loaded.done
    /\ DOMAIN loaded.cfg = TwoKeys
    /\ loaded.cfg["image_top_k"] = PyInt(11)
    /\ loaded.cfg["text_max_len"] = PyInt(256)

(***************************************************************************)
(* Properties of the model objects.                                        *)
(***************************************************************************)

\* The last call ran load_model (called directly, or by process).
LoadRan == last_call.attempts # <<>>

\* C11: load_model tries the named model and, only when that fails, the
\* default pipeline, once; when either attempt succeeds it returns with the
\* model marked loaded and a pipeline set; when both fail the exception
\* propagates, the loaded mark is as it was, and no third attempt is made.
C11_FallbackOnce ==
    LoadRan =>
        /\ last_call.attempts =
              IF last_call.hub.named THEN <<"named">>
              ELSE <<"named", "default">>
        /\ (last_call.hub.named \/ last_call.hub.default) =>
              /\ last_call.op = "load_model" => ~last_call.raised
              /\ _is_loaded
              /\ _pipeline # "None"
              /\ _pipeline = IF last_call.hub.named THEN "named" ELSE "default"
        /\ (~last_call.hub.named /\ ~last_call.hub.default) =>
              /\ last_call.raised
              /\ last_call.ret = NoRet
              /\ _is_loaded = last_call.was_loaded

\* The sentiment model was loaded by the fallback after the named model
\* failed to load.
C11_Witness ==
    /\ model_class = "SentimentAnalysisModel"
    /\ last_call.op = "load_model"
    /\ last_call.hub = [named |-> FALSE, default |-> TRUE]
    /\ last_call.attempts = <<"named", "default">>
    /\ ~last_call.raised
    /\ _is_loaded
    /\ _pipeline = "default"
    /\ _model_name = "distilbert-base-uncased-finetuned-sst-2-english"

\* The last call was process on the image model and reached its try
\* statement.
ImageProcessed ==
    /\ model_class = "ImageClassificationModel"
    /\ last_call.op = "process"
    /\ last_call.env.accepted = "yes"
    /\ ~(LoadRan /\ ~last_call.hub.named /\ ~last_call.hub.default)

\* C18: process of the image model returns a string, it does not raise, when
\* the image cannot be acquired or classified: "Error loading image from
\* URL" for an input starting with http:// or https://, the demo response
\* for any other input, "Error processing image" when classification
\* raises; a successful classification lists at most 5 predictions.
C18_FailuresAsStrings ==
    ImageProcessed =>
        /\ ~last_call.raised
        /\ last_call.env.acquired = "no" =>
              IF last_call.input = In_HttpsUrl
              THEN /\ last_call.ret.text = "Error loading image from URL: "
                   /\ last_call.ret.detail = StrE
              ELSE /\ last_call.ret.text = "DEMO MODE - Image Classification"
                   /\ last_call.ret.detail = last_call.input
        /\ last_call.env.infer.raises =>
              last_call.ret.text = "Error processing image: "
        /\ last_call.env.valid = "True" =>
              /\ last_call.ret.text = "Image Classification Results:"
              /\ Len(last_call.ret.listed) <= 5
              /\ Len(last_call.ret.listed) =
                    IF last_call.env.infer.n <= 5
                    THEN last_call.env.infer.n ELSE 5

\* The pipeline returned more than 5 predictions and 5 were listed.
C18_Witness ==
    /\ ImageProcessed
    /\ last_call.input = In_HttpsUrl
    /\ last_call.env.infer.n > 5
    /\ last_call.env.valid = "True"
    /\ Len(last_call.ret.listed) = 5

IsNumber(val) == val.t = "int" \/ (val.t = "float" /\ val.s = <<>>)

\* A number in tenths.
Tenths(val) == IF val.t = "int" THEN 10 * val.i ELSE val.i

\* The argument has no integer value: int(val) raises.
Inconvertible(val) ==
    \/ val \in {PyNone, PyInf}
    \/ val \in {PyStr(<<"a">>), PyStr(<<"1", ".", "5">>), PyStr(<<>>)}

\* C17 as stated: the result is within lo..hi; it equals val when val is
\* within the range, lo when val is below it, hi when val is above it, and
\* lo when val has no integer value; clamping the result again changes
\* nothing.
C17_ClampReturnsVal ==
    clamp_out.called =>
        LET val == clamp_in.val
            lo == clamp_in.lo
            hi == clamp_in.hi
            r == clamp_out.r
        IN  /\ lo <= r /\ r <= hi
            /\ IsNumber(val) =>
                  /\ (10 * lo <= Tenths(val) /\ Tenths(val) <= 10 * hi)
                        => 10 * r = Tenths(val)
                  /\ Tenths(val) < 10 * lo => r = lo
                  /\ Tenths(val) > 10 * hi => r = hi
            /\ Inconvertible(val) => r = lo
            /\ clamp_prev.again => r = clamp_prev.r

\* C17 as amended: as above, but a value within the range gives int(val),
\* the value truncated toward zero (val itself only when it is an integer);
\* a string holding a numeral is clamped as that number.
C17_ClampReturnsIntOfVal ==
    clamp_out.called =>
        LET val == clamp_in.val
            lo == clamp_in.lo
            hi == clamp_in.hi
            r == clamp_out.r
        IN  /\ lo <= r /\ r <= hi
            /\ IsNumber(val) =>
                  /\ (10 * lo <= Tenths(val) /\ Tenths(val) <= 10 * hi)
                        => IF Tenths(val) >= 0
                           THEN 10 * r <= Tenths(val) /\ Tenths(val) < 10 * r + 10
                           ELSE 10 * r >= Tenths(val) /\ Tenths(val) > 10 * r - 10
                  /\ val.t = "int" /\ lo <= val.i /\ val.i <= hi => r = val.i
                  /\ Tenths(val) < 10 * lo => r = lo
                  /\ Tenths(val) > 10 * hi => r = hi
            /\ Inconvertible(val) => r = lo
            /\ (val = PyStr(<<"7">>) /\ lo = 1 /\ hi = 10) => r = 7
            /\ (val = PyStr(<<" ", "-", "1">>) /\ lo = 0) => r = 0
            /\ clamp_prev.again => r = clamp_prev.r

\* clamp_int(3.7, 1, 10) returned 3.
C17_Witness ==
    /\ clamp_out.called
    /\ clamp_in = [val |-> PyFloat(37), lo |-> 1, hi |-> 10]
    /\ clamp_out.r = 3

(***************************************************************************)
(* Properties of the input validator and of the error mapping.             *)
(***************************************************************************)

WasValidated == validated.kind # "none" /\ image_input.t = "str"

\* The input as the wrapper sees it: str(image_input).strip()
Trimmed == strip(image_input.s)

\* The scheme urlparse finds in the trimmed input is http or https.
HasHttpScheme ==
    /\ urlparse(Trimmed).ok
    /\ urlparse(Trimmed).scheme \in {<<"h","t","t","p">>, <<"h","t","t","p","s">>}

C15_OnlyValidInputPassed ==
    validated.kind # "none" =>
        /\ validated.kind \in {"called", "raised"}
        /\ image_input.t = "bytes" =>
              validated = Called("bytes", image_input.s)
        /\ image_input.t = "str" =>
              IF Trimmed = <<>>
              THEN /\ validated.kind = "raised"
                   /\ validated.branch = "ModelInputError"
              ELSE IF HasHttpScheme \/ Trimmed \in fs
              THEN /\ validated.kind = "called"
                   /\ validated.branch \in {"url", "file"}
                   /\ validated.arg = Trimmed
              ELSE validated = Raised("FileNotFoundError", Trimmed)
        /\ image_input.s = In_HttpsUrlPadded =>
              validated = Called("url", In_HttpsUrl)
        /\ (image_input.s = In_PathPadded /\ In_Path \in fs) =>
              validated = Called("file", In_Path)
        /\ (image_input.s = In_Ftp /\ image_input.t = "str") =>
              validated = Raised("FileNotFoundError", In_Ftp)
        /\ image_input.s = In_Blank => validated.branch = "ModelInputError"

\* A padded path of an existing file was passed on trimmed.
C15_Witness ==
    /\ image_input = [t |-> "str", s |-> In_PathPadded]
    /\ In_Path \in fs
    /\ validated = Called("file", In_Path)

WasMapped == friendly # NoFriendly

Is(c) == c \in exc.classes

\* C10: friendly_error_message returns a string for every exception, chosen
\* by the first category that applies: ModelInputError, FileNotFoundError,
\* unidentifiable image, malformed URL, connection error, timeout, HTTP
\* error; the four network messages differ; anything else gives str(e).
C10_FriendlyByPriority ==
    WasMapped =>
        /\ Is("ModelInputError") => friendly = exc.msg
        /\ (~Is("ModelInputError") /\ Is("FileNotFoundError"))
              => friendly = <<"Image file not found: ">> \o exc.msg
        /\ (~Is("ModelInputError") /\ ~Is("FileNotFoundError"))
              => IF Is("UnidentifiedImageError") THEN friendly = MsgNotImage
                 ELSE IF Is("MissingSchema") \/ Is("InvalidURL")
                 THEN friendly = MsgInvalidUrl
                 ELSE IF Is("ConnectionError") THEN friendly = MsgConnection
                 ELSE IF Is("Timeout") THEN friendly = MsgTimeout
                 ELSE IF Is("HTTPError") THEN friendly = MsgHttp(exc.status)
                 ELSE friendly = exc.msg
        /\ Cardinality({MsgInvalidUrl, MsgConnection, MsgTimeout,
                        MsgHttp(exc.status)}) = 4

\* An exception that is both a connection error and a timeout (requests'
\* ConnectTimeout) was mapped to the connection message.
C10_Witness ==
    /\ exc.classes = {"ConnectionError", "Timeout"}
    /\ friendly = MsgConnection

====
